---------------------------- MODULE Spec2Model ----------------------------
(***************************************************************************)
(* A model of retrieveData.py: the DataHandler class of a small client of  *)
(* the Tiingo price API.  Four operations are modelled, each under its own *)
(* specification because they share no state but the constructed object:   *)
(*                                                                         *)
(*   SpecInit     DataHandler.__init__          (credential file -> token) *)
(*   SpecUrl      DataHandler.construct_url     (query string assembly)    *)
(*   SpecFetch    DataHandler.get_historical_data (concurrent fetch/merge) *)
(*   SpecReturns  DataHandler.get_returns       (validation and returns)   *)
(*                                                                         *)
(* Python values are records tagged by a field "kind", so that values of   *)
(* different Python types can be compared.  Strings are TLA+ strings; the  *)
(* Python value None, which an f-string renders as the text None, is the   *)
(* string PyNone wherever it can meet a str.                               *)
(***************************************************************************)
EXTENDS Integers, Sequences, FiniteSets, TLC

VARIABLES
    pc,         \* position of the modelled call: "call" before, "done" after
    file,       \* __init__: the credential file named by api_token_file
    obj,        \* __init__: the constructed object, or the exception raised
    uargs,      \* construct_url: the arguments and the clock
    url,        \* construct_url: the returned URL, a sequence of text pieces
    fargs,      \* get_historical_data: the arguments and the clock
    resp,       \* get_historical_data: what the service answers per ticker
    future,     \* get_historical_data: executor.map's futures, by position
    arrival,    \* get_historical_data: task positions in completion order
    log,        \* get_historical_data: the records the logger has emitted
    result,     \* get_historical_data: the value returned or exception raised
    rargs,      \* get_returns: the arguments
    ret         \* get_returns: the value returned or exception raised

vars == <<pc, file, obj, uargs, url, fargs, resp, future, arrival, log, result,
          rargs, ret>>

retVars == <<rargs, ret>>

fetchVars == <<fargs, resp, future, arrival, log, result>>

\* The value of a variable an operation does not use.
Idle == [kind |-> "idle"]

FetchIdle ==
    /\ fargs = Idle
    /\ resp = Idle
    /\ future = <<>>
    /\ arrival = <<>>
    /\ log = <<>>
    /\ result = Idle

RetIdle ==
    /\ rargs = Idle
    /\ ret = Idle

\* None where it can be compared with a str; f"{None}" is the text None.
PyNone == "None"

\* Python truthiness of an Optional[str]: None and '' are falsy.
Truthy(v) == v \notin {PyNone, ""}

-----------------------------------------------------------------------------
(* DataHandler.__init__                                                    *)

\* Longest credential file content the model enumerates.
MaxFileLen == 4

\* Characters of a credential file: two kinds of whitespace and a token
\* character.
Whitespace == {" ", "\n"}
FileChars == Whitespace \cup {"k"}

RECURSIVE LStrip(_)
LStrip(s) ==
    IF s # <<>> /\ Head(s) \in Whitespace THEN LStrip(Tail(s)) ELSE s

RECURSIVE RStrip(_)
RStrip(s) ==
    IF s # <<>> /\ s[Len(s)] \in Whitespace
    THEN RStrip(SubSeq(s, 1, Len(s) - 1))
    ELSE s

\* str.strip(): leading and trailing whitespace removed.
Strip(s) == RStrip(LStrip(s))

BaseUrl == "https://api.tiingo.com/tiingo/daily/"

\* self.default_params, a dict in insertion order.
DefaultParams == << <<"format", "csv">>, <<"resampleFreq", "daily">> >>

\* self.headers for a token.
Headers(token) ==
    [ContentType |-> "application/json",
     Authorization |-> [scheme |-> "Token", token |-> token]]

Unreadable == [kind |-> "file", readable |-> FALSE, content |-> <<>>]

Files ==
    {Unreadable} \cup
    {[kind |-> "file", readable |-> TRUE, content |-> c] :
        c \in UNION {[1..n -> FileChars] : n \in 0..MaxFileLen}}

\* open() fails: the OSError leaves __init__ and no object exists.
InitOpenFails ==
    /\ pc = "call"
    /\ ~file.readable
    /\ obj' = [kind |-> "raise", exc |-> "OSError"]
    /\ pc' = "done"
    /\ UNCHANGED <<file, uargs, url, fetchVars, retVars>>

\* The file is read, stripped and stored; nothing looks at the token.
InitConstructs ==
    /\ pc = "call"
    /\ file.readable
    /\ obj' = [kind |-> "DataHandler",
               token |-> Strip(file.content),
               base_url |-> BaseUrl,
               default_params |-> DefaultParams,
               headers |-> Headers(Strip(file.content))]
    /\ pc' = "done"
    /\ UNCHANGED <<file, uargs, url, fetchVars, retVars>>

InitInit ==
    /\ pc = "call"
    /\ file \in Files
    /\ obj = Idle
    /\ uargs = Idle
    /\ url = <<>>
    /\ FetchIdle
    /\ RetIdle

NextInit == InitOpenFails \/ InitConstructs

SpecInit == InitInit /\ [][NextInit]_vars

-----------------------------------------------------------------------------
(* DataHandler.construct_url                                               *)

Tickers == {"A", "B"}

\* start_date, end_date and frequency as construct_url can receive them:
\* omitted (None), an empty string, or a text.  get_historical_data passes
\* dates already formatted as YYYY-MM-DD, and an f-string renders a str as
\* itself.
StartArgs == {PyNone, "", "2000-01-01", "2024-01-02"}
EndArgs == {PyNone, "", "2024-01-02", "2024-06-30"}
FreqArgs == {PyNone, "", "daily", "weekly", "monthly"}
\* dt.date.today() as the clock can answer it.
UrlTodays == {"2024-06-30", "2024-07-01"}

\* dict[k] = v on a dict kept as a sequence of <<key, value>> in insertion
\* order: an existing key keeps its place, a new key goes last.
DictSet(d, k, v) ==
    IF \E i \in 1..Len(d) : d[i][1] = k
    THEN [i \in 1..Len(d) |-> IF d[i][1] = k THEN <<k, v>> ELSE d[i]]
    ELSE Append(d, <<k, v>>)

UrlKeepAll(d) == d

\* {k: v for k, v in params.items() if v is not None}
UrlDropNone(d) == SelectSeq(d, LAMBDA kv : kv[2] # PyNone)

\* '&'.join(f"{k}={v}" for k, v in params.items()), as text pieces.
RECURSIVE UrlJoin(_)
UrlJoin(d) ==
    IF d = <<>> THEN <<>>
    ELSE IF Len(d) = 1 THEN <<d[1][1], "=", d[1][2]>>
    ELSE <<d[1][1], "=", d[1][2], "&">> \o UrlJoin(Tail(d))

\* The params dict of construct_url just before the URL is formatted.
UrlParams(start_date, end_date, frequency, today) ==
    LET end1 == IF end_date = PyNone THEN today ELSE end_date
        p1 == DictSet(DefaultParams, "startDate",
                      IF Truthy(start_date) THEN start_date ELSE PyNone)
        p2 == DictSet(p1, "endDate", end1)
        p3 == IF Truthy(frequency) THEN DictSet(p2, "resampleFreq", frequency)
              ELSE p2
    IN  UrlDropNone(p3)

construct_url(ticker, start_date, end_date, frequency, today) ==
    <<BaseUrl, ticker, "/prices?">>
        \o UrlJoin(UrlParams(start_date, end_date, frequency, today))

ConstructUrl ==
    /\ pc = "call"
    /\ url' = construct_url(uargs.ticker, uargs.start_date, uargs.end_date,
                            uargs.frequency, uargs.today)
    /\ pc' = "done"
    /\ UNCHANGED <<file, obj, uargs, fetchVars, retVars>>

InitUrl ==
    /\ pc = "call"
    /\ file = Idle
    /\ obj = Idle
    /\ uargs \in [kind : {"url"}, ticker : Tickers, start_date : StartArgs,
                  end_date : EndArgs, frequency : FreqArgs, today : UrlTodays]
    /\ url = <<>>
    /\ FetchIdle
    /\ RetIdle

NextUrl == ConstructUrl

SpecUrl == InitUrl /\ [][NextUrl]_vars

-----------------------------------------------------------------------------
(* Tables: pandas DataFrames                                               *)

\* A cell of a table: a number, or the missing value NaN.
NaN == [kind |-> "nan"]
Num(x) == [kind |-> "num", v |-> x]

\* The Python value None where a DataFrame can stand.
NoneValue == [kind |-> "None"]

\* A DataFrame: its index labels in order, and its columns in order, each a
\* name and one cell per index position.  Column names may repeat.
DataFrame(index, columns) ==
    [kind |-> "DataFrame", index |-> index, columns |-> columns]

Column(name, values) == [name |-> name, values |-> values]

ColumnNames(df) == {df.columns[j].name : j \in 1..Len(df.columns)}

Range(s) == {s[k] : k \in 1..Len(s)}

IsUnique(s) == \A i, j \in 1..Len(s) : s[i] = s[j] => i = j

\* How many times a label occurs in an index.
Count(s, d) == Cardinality({k \in 1..Len(s) : s[k] = d})

Repeat(d, n) == [k \in 1..n |-> d]

\* Index.union of two date indexes, over the labels S still to place: the
\* labels in increasing order, each as often as in the index that repeats
\* it most.
RECURSIVE UnionIndex(_, _, _)
UnionIndex(S, a, b) ==
    IF S = {} THEN <<>>
    ELSE LET m == CHOOSE x \in S : \A y \in S : x <= y
             n == IF Count(a, m) >= Count(b, m) THEN Count(a, m)
                  ELSE Count(b, m)
         IN  Repeat(m, n) \o UnionIndex(S \ {m}, a, b)

\* reindex(index) for a column whose own index is unique: the cell at each
\* label of the new index, which may repeat labels, NaN where the column has
\* no such label.
Reindex(oldIndex, values, newIndex) ==
    [k \in 1..Len(newIndex) |->
        IF \E i \in 1..Len(oldIndex) : oldIndex[i] = newIndex[k]
        THEN values[CHOOSE i \in 1..Len(oldIndex) : oldIndex[i] = newIndex[k]]
        ELSE NaN]

\* DataFrame.empty: some axis has length 0.
IsEmpty(df) == Len(df.index) = 0 \/ Len(df.columns) = 0

-----------------------------------------------------------------------------
(* DataHandler.get_historical_data                                         *)
(*                                                                         *)
(* Dates are day numbers: start_date and end_date are the days the strings *)
(* of lines 74-75 name, which pd.date_range reads back.  The service is    *)
(* keyed by the ticker of the request URL; frequency reaches the URL only  *)
(* and is left out.  Each ticker's answer is fixed for the call.           *)

\* Longest list of tickers, and most rows in one response body.
MaxTickers == 2
MaxRows == 2

\* Optional[date]: <<>> is None, <<d>> is the day d.
StartDates == {1}
EndDates == {<<>>, <<1>>}
FetchTodays == {2}

\* The days the service has quotes for: from the first requestable day to
\* the latest today; it quotes no day to come.
Dates == UNION {1..t : t \in FetchTodays}

\* The tickers argument: a bare str, or a list of str.
TickerArgs ==
    {[kind |-> "str", s |-> t] : t \in Tickers} \cup
    {[kind |-> "list", items |-> l] :
        l \in UNION {[1..n -> Tickers] : n \in 0..MaxTickers}}

\* if isinstance(tickers, str): tickers = [tickers]
NormTickers(arg) == IF arg.kind = "str" THEN <<arg.s>> ELSE arg.items

\* end_date after "if end_date is None: end_date = dt.date.today()".
EndDate(args) == IF args.end_date = <<>> THEN args.today ELSE args.end_date[1]

\* pd.date_range(start=start_date, end=end_date): every day of the range.
DateRange(start, end) == [k \in 1..(IF end >= start THEN end - start + 1 ELSE 0)
                            |-> start + k - 1]

\* The number the service quotes for a ticker, a column and a day.
Quote(t, c, d) ==
    (IF t = "A" THEN 100 ELSE 200) + (IF c = "adjClose" THEN 10 ELSE 20) + d

\* Rows of a response body, as the days they are for: in date order, a day
\* possibly repeated.
BodyDates ==
    {r \in UNION {[1..n -> Dates] : n \in 0..MaxRows} :
        \A i \in 1..Len(r) - 1 : r[i] <= r[i + 1]}

\* Header lines of the bodies the service sends: with and without the
\* adjClose column.
DataHeaders == {<<"date", "close">>, <<"date", "close", "adjClose">>}

\* What one requests.get can come to: a transport error, a non-2xx status, a
\* body read_csv rejects, a one-column body of error text, a body of rows.
Responses ==
    {[kind |-> "transport"], [kind |-> "http"], [kind |-> "garbage"],
     [kind |-> "csv", header |-> <<"detail">>, dates |-> <<>>]} \cup
    {[kind |-> "csv", header |-> h, dates |-> r] :
        h \in DataHeaders, r \in BodyDates}

LogRecord(level, msg, arg) == [level |-> level, msg |-> msg, arg |-> arg]

\* pd.read_csv, to_datetime and set_index('date') on a body with a date
\* column.
ParseCsv(t, r) ==
    LET names == SelectSeq(r.header, LAMBDA c : c # "date")
    IN  DataFrame(r.dates,
            [j \in 1..Len(names) |->
                Column(names[j],
                       [k \in 1..Len(r.dates) |->
                            Num(Quote(t, names[j], r.dates[k]))])])

\* fetch_data(ticker) against the service's answer r: the df of the returned
\* pair and the record logged.
fetch_data(t, r) ==
    IF r.kind \in {"transport", "http"}
    THEN [ticker |-> t, df |-> NoneValue,
          log |-> LogRecord("ERROR", "Error fetching data for", t)]
    ELSE IF r.kind = "garbage" \/ "date" \notin Range(r.header)
    THEN [ticker |-> t, df |-> NoneValue,
          log |-> LogRecord("ERROR", "Unexpected error for", t)]
    ELSE [ticker |-> t, df |-> ParseCsv(t, r),
          log |-> LogRecord("INFO", "Successfully fetched data for", t)]

Raise(exc) == [kind |-> "raise", exc |-> exc]

\* df[['adjClose']]
SelectAdjClose(df) ==
    IF "adjClose" \notin ColumnNames(df) THEN Raise("KeyError")
    ELSE DataFrame(df.index,
                   SelectSeq(df.columns, LAMBDA c : c.name = "adjClose"))

\* combined_df[ticker] = df['adjClose']
SetAdjClose(combined, t, df) ==
    IF "adjClose" \notin ColumnNames(df) THEN Raise("KeyError")
    ELSE IF ~IsUnique(df.index) THEN Raise("ValueError")
    ELSE LET src == CHOOSE c \in Range(df.columns) : c.name = "adjClose"
             col == Column(t, Reindex(df.index, src.values, combined.index))
         IN  IF t \in ColumnNames(combined)
             THEN DataFrame(combined.index,
                     [j \in 1..Len(combined.columns) |->
                         IF combined.columns[j].name = t THEN col
                         ELSE combined.columns[j]])
             ELSE DataFrame(combined.index, Append(combined.columns, col))

\* pd.concat([combined_df, df], axis=1): an outer join on the union of the
\* two indexes.  A frame whose index is the union already is taken as it is;
\* any other frame is reindexed, which pandas refuses for an index that
\* repeats a label.
ConcatColumns(combined, df) ==
    LET idx == UnionIndex(Range(combined.index) \cup Range(df.index),
                          combined.index, df.index)
        mustReindex(f) == f.index # idx
        re(f) == IF ~mustReindex(f) THEN f.columns
                 ELSE [j \in 1..Len(f.columns) |->
                         Column(f.columns[j].name,
                                Reindex(f.index, f.columns[j].values, idx))]
    IN  IF \E f \in {combined, df} : mustReindex(f) /\ ~IsUnique(f.index)
        THEN Raise("InvalidIndexError")
        ELSE DataFrame(idx, re(combined) \o re(df))

\* The for loop over results from position k on; an exception ends it.
RECURSIVE MergeLoop(_, _, _, _)
MergeLoop(results, k, adj, combined) ==
    IF combined.kind = "raise" \/ k > Len(results) THEN combined
    ELSE IF results[k].df = NoneValue
    THEN MergeLoop(results, k + 1, adj, combined)
    ELSE MergeLoop(results, k + 1, adj,
            IF adj THEN SetAdjClose(combined, results[k].ticker, results[k].df)
            ELSE ConcatColumns(combined, results[k].df))

\* The number the closing log record reports: combined_df.shape[1].
ReportedCount(combined) == Len(combined.columns)

\* The closing log record of the multi-ticker path.
ClosingLog(combined) ==
    IF IsEmpty(combined)
    THEN LogRecord("WARNING", "No data was successfully retrieved", 0)
    ELSE LogRecord("INFO", "Successfully retrieved data for n tickers",
                   ReportedCount(combined))

\* Lines 97-116: what the call returns or raises, and what it logs on the
\* way, given the list of results.
Finish(results, args) ==
    LET adj == args.adj_close_only
    IN  IF Len(results) = 1
        THEN [value |-> IF adj /\ results[1].df # NoneValue
                        THEN SelectAdjClose(results[1].df)
                        ELSE results[1].df,
              log |-> <<>>]
        ELSE LET combined ==
                     MergeLoop(results, 1, adj,
                         DataFrame(DateRange(args.start_date, EndDate(args)),
                                   <<>>))
             IN  [value |-> combined,
                  log |-> IF combined.kind = "raise" THEN <<>>
                          ELSE <<ClosingLog(combined)>>]

Pending == [kind |-> "pending"]

\* A future is done once its task has returned.
AllDone == \A i \in 1..Len(future) : future[i].kind = "done"

\* A result taken by the position at which its task finished.
ExecutorMapByArrival ==
    [k \in 1..Len(future) |->
        [ticker |-> NormTickers(fargs.tickers)[k],
         df |-> future[arrival[k]].df]]

\* list(executor.map(fetch_data, tickers)): the results in the order of the
\* tickers, whatever the order the tasks finished in.
ExecutorMap ==
    [k \in 1..Len(future) |->
        [ticker |-> future[k].ticker, df |-> future[k].df]]

\* The task at position i runs the body of fetch_data up to its logger call:
\* the request, the parse, and the record logged.  Its future is still
\* running and holds nothing yet; the pair the task is about to return is
\* kept with the task.
FetchData(i) ==
    /\ pc = "call"
    /\ future[i] = Pending
    /\ LET out == fetch_data(NormTickers(fargs.tickers)[i],
                             resp[NormTickers(fargs.tickers)[i]])
       IN  /\ future' = [future EXCEPT ![i] = [kind |-> "logged",
                                               ticker |-> out.ticker,
                                               df |-> out.df]]
           /\ log' = Append(log, out.log)
    /\ UNCHANGED <<pc, file, obj, uargs, url, fargs, resp, arrival, result,
                   retVars>>

\* The task at position i returns its pair and its future completes; other
\* tasks may have logged or returned since it logged.
FetchReturn(i) ==
    /\ pc = "call"
    /\ future[i].kind = "logged"
    /\ future' = [future EXCEPT ![i].kind = "done"]
    /\ arrival' = Append(arrival, i)
    /\ UNCHANGED <<pc, file, obj, uargs, url, fargs, resp, log, result,
                   retVars>>

\* Every task has finished: the results are listed, merged and returned.
Join ==
    /\ pc = "call"
    /\ AllDone
    /\ LET out == Finish(ExecutorMap, fargs)
       IN  /\ result' = out.value
           /\ log' = log \o out.log
    /\ pc' = "done"
    /\ UNCHANGED <<file, obj, uargs, url, fargs, resp, future, arrival, retVars>>

InitFetch ==
    /\ pc = "call"
    /\ file = Idle
    /\ obj = Idle
    /\ uargs = Idle
    /\ url = <<>>
    /\ fargs \in [kind : {"fetch"}, tickers : TickerArgs,
                  start_date : StartDates, end_date : EndDates,
                  today : FetchTodays, adj_close_only : BOOLEAN]
    /\ resp \in [Tickers -> Responses]
    /\ \A t \in Tickers \ Range(NormTickers(fargs.tickers)) :
            resp[t] = [kind |-> "transport"]
    /\ future = [i \in 1..Len(NormTickers(fargs.tickers)) |-> Pending]
    /\ arrival = <<>>
    /\ log = <<>>
    /\ result = Idle
    /\ RetIdle

NextFetch ==
    \/ \E i \in 1..Len(future) : FetchData(i)
    \/ \E i \in 1..Len(future) : FetchReturn(i)
    \/ Join

SpecFetch == InitFetch /\ [][NextFetch]_vars

-----------------------------------------------------------------------------
(* DataHandler.get_returns                                                 *)

\* Most rows of a table handed to get_returns.
MaxRetRows == 2

\* A text cell, which makes its column non-numeric.
Str(x) == [kind |-> "str", v |-> x]

RetPrices == {100, 110}

\* The index of an n-row table: days ascending, or days descending.
RetIndexes(n) == {[k \in 1..n |-> k], [k \in 1..n |-> n + 1 - k]}

\* Columns A and B hold prices, column S holds text.
RetLayouts == {<<>>, <<"A">>, <<"S">>, <<"A", "S">>, <<"S", "A">>, <<"A", "B">>}

RetColumns(name, n) ==
    IF name = "S" THEN {Column(name, [k \in 1..n |-> Str("NYSE")])}
    ELSE {Column(name, [k \in 1..n |-> Num(p[k])]) : p \in [1..n -> RetPrices]}

\* Every table of n rows with the columns of a layout.
RetFramesOf(layout, n) ==
    {DataFrame(idx, cols) :
        idx \in RetIndexes(n),
        cols \in {c \in [1..Len(layout) -> UNION {RetColumns(layout[j], n) :
                                                    j \in 1..Len(layout)}] :
                    \A j \in 1..Len(layout) : c[j].name = layout[j]}}

RetFrames ==
    UNION {RetFramesOf(layout, n) : layout \in RetLayouts, n \in 0..MaxRetRows}

\* The columns argument: None, a bare name, or a list of names; Z names no
\* column of any table.
RetSelectors ==
    {[kind |-> "None"]} \cup
    {[kind |-> "str", s |-> c] : c \in {"A", "S", "Z"}} \cup
    {[kind |-> "list", items |-> l] :
        l \in {<<>>, <<"A">>, <<"S">>, <<"A", "S">>, <<"S", "A">>,
               <<"A", "B">>, <<"A", "Z">>, <<"S", "Z">>}}

\* if isinstance(columns, str): columns = [columns]
SelectedNames(columns) ==
    IF columns.kind = "str" THEN <<columns.s>> ELSE columns.items

ValueError(msg, cols) ==
    [kind |-> "raise", exc |-> "ValueError", msg |-> msg, cols |-> cols]

TooShortBelowOne(df) == IsEmpty(df) \/ Len(df.index) < 1

\* df.empty or len(df) < 2
TooShort(df) == IsEmpty(df) \/ Len(df.index) < 2

NarrowNothing(df, names) == df

\* df[columns] for a list of names: those columns, in the order named; a
\* name that is no column raises KeyError.
Narrow(df, names) ==
    IF \E k \in 1..Len(names) : names[k] \notin ColumnNames(df)
    THEN Raise("KeyError")
    ELSE DataFrame(df.index,
            [k \in 1..Len(names) |->
                CHOOSE c \in Range(df.columns) : c.name = names[k]])

\* A column's dtype is a number dtype: no cell of it is text.
IsNumeric(c) == \A k \in 1..Len(c.values) : c.values[k].kind # "str"

\* list(df.select_dtypes(exclude=[np.number]).columns)
NonNumericCols(df) ==
    LET bad == SelectSeq(df.columns, LAMBDA c : ~IsNumeric(c))
    IN  [j \in 1..Len(bad) |-> bad[j].name]

ShiftBackfilled(values) ==
    [k \in 1..Len(values) |-> IF k = 1 THEN values[1] ELSE values[k - 1]]

\* Series.shift(1): each cell moves one row down, the first row is missing.
Shift1(values) ==
    [k \in 1..Len(values) |-> IF k = 1 THEN NaN ELSE values[k - 1]]

\* cur / prev - 1, kept as the exact fraction (cur - prev) / prev.
PctCell(cur, prev) ==
    IF cur.kind # "num" \/ prev.kind # "num" THEN NaN
    ELSE [kind |-> "ratio", num |-> cur.v - prev.v, den |-> prev.v]

\* np.log(cur / prev), kept as the fraction whose logarithm it is.
LogCell(cur, prev) ==
    IF cur.kind # "num" \/ prev.kind # "num" THEN NaN
    ELSE [kind |-> "ln", num |-> cur.v, den |-> prev.v]

\* np.log(df / df.shift(1)) or df.pct_change(), column by column.
ReturnsOf(df, useLog) ==
    DataFrame(df.index,
        [j \in 1..Len(df.columns) |->
            LET cur == df.columns[j].values
                prev == Shift1(cur)
            IN  Column(df.columns[j].name,
                    [k \in 1..Len(cur) |->
                        IF useLog THEN LogCell(cur[k], prev[k])
                        ELSE PctCell(cur[k], prev[k])])])

\* returns_df.set_index(df.index)
SetIndex(returns, index) == DataFrame(index, returns.columns)

get_returns(df, columns, useLog) ==
    IF TooShort(df)
    THEN ValueError("Input DataFrame is empty or has insufficient data points",
                    <<>>)
    ELSE LET narrowed == IF columns.kind = "None" THEN df
                         ELSE Narrow(df, SelectedNames(columns))
         IN  IF narrowed.kind = "raise" THEN narrowed
             ELSE IF Len(NonNumericCols(narrowed)) > 0
             THEN ValueError("DataFrame contains non-numeric data in columns",
                             NonNumericCols(narrowed))
             ELSE SetIndex(ReturnsOf(narrowed, useLog), narrowed.index)

GetReturns ==
    /\ pc = "call"
    /\ ret' = get_returns(rargs.df, rargs.columns, rargs.log)
    /\ pc' = "done"
    /\ UNCHANGED <<file, obj, uargs, url, fetchVars, rargs>>

InitReturns ==
    /\ pc = "call"
    /\ file = Idle
    /\ obj = Idle
    /\ uargs = Idle
    /\ url = <<>>
    /\ FetchIdle
    /\ rargs \in [kind : {"returns"}, df : RetFrames, columns : RetSelectors,
                  log : BOOLEAN]
    /\ ret = Idle

NextReturns == GetReturns

SpecReturns == InitReturns /\ [][NextReturns]_vars

-----------------------------------------------------------------------------
(* Properties                                                              *)

\* The normalised ticker list of the call in progress.
CallTickers == NormTickers(fargs.tickers)

\* The tickers whose fetch_data returned a table.
Succeeded ==
    {CallTickers[i] : i \in {k \in 1..Len(future) : future[k].df # NoneValue}}

\* The results of running fetch_data on the tickers one after another, in
\* the order of the list.
SequentialResults ==
    [k \in 1..Len(CallTickers) |->
        [ticker |-> CallTickers[k],
         df |-> fetch_data(CallTickers[k], resp[CallTickers[k]]).df]]

\* The <<key, value>> pairs of the query string of a URL.
UrlQuery(u) ==
    LET q == SubSeq(u, 4, Len(u))
    IN  [j \in 1..((Len(q) + 1) \div 4) |-> <<q[4 * j - 3], q[4 * j - 1]>>]

UrlKeys(u) == {UrlQuery(u)[j][1] : j \in 1..Len(UrlQuery(u))}

\* C1: a get_historical_data call with two or more distinct tickers never
\* fails, whatever each ticker's fetch comes to, and in adj_close_only mode
\* its table holds a column for exactly the tickers whose fetch succeeded.
C1_BatchNeverFails ==
    (pc = "done" /\ Len(CallTickers) >= 2 /\ IsUnique(CallTickers)) =>
        /\ result.kind = "DataFrame"
        /\ fargs.adj_close_only => ColumnNames(result) = Succeeded

\* C2: when an adj_close_only call with two or more distinct tickers, all
\* fetched, returns its table, the table has one column per ticker and
\* its index holds every date of every ticker's fetched series.
C2_IndexSupersetOfEveryTicker ==
    (/\ pc = "done"
     /\ fargs.adj_close_only
     /\ Len(CallTickers) >= 2
     /\ IsUnique(CallTickers)
     /\ \A i \in 1..Len(future) : future[i].df # NoneValue
     /\ result.kind = "DataFrame") =>
        /\ Len(result.columns) = Cardinality(Range(CallTickers))
        /\ \A i \in 1..Len(future) :
                Range(future[i].df.index) \subseteq Range(result.index)

\* C3: a call with exactly one ticker ends with that ticker's own series
\* (its adjClose column alone in adj_close_only mode) or with None when the
\* fetch failed.
C3_SingleTickerOwnSeriesOrNone ==
    (pc = "done" /\ Len(CallTickers) = 1) =>
        LET own == SequentialResults[1].df
        IN  IF own = NoneValue THEN result = NoneValue
            ELSE /\ result.kind = "DataFrame"
                 /\ result.index = own.index
                 /\ IF fargs.adj_close_only
                    THEN ColumnNames(result) = {"adjClose"}
                    ELSE result = own

\* C4: get_returns on a table of 0 rows or 1 row raises the ValueError of
\* the row check, whatever the columns selector and the log flag, and
\* returns no table.
C4_ShortTableRejected ==
    (pc = "done" /\ rargs # Idle /\ Len(rargs.df.index) <= 1) =>
        /\ ret.kind = "raise"
        /\ ret.exc = "ValueError"
        /\ ret.cols = <<>>

C4_Witness ==
    /\ pc = "done"
    /\ rargs # Idle
    /\ Len(rargs.df.index) = 1
    /\ ColumnNames(rargs.df) = {"A"}
    /\ rargs.columns = [kind |-> "str", s |-> "A"]
    /\ rargs.log
    /\ ret.kind = "raise"

\* A selector was given and it names the non-numeric column S of the table.
SelectsText ==
    /\ rargs # Idle
    /\ rargs.columns.kind # "None"
    /\ "S" \in Range(SelectedNames(rargs.columns))
    /\ "S" \in ColumnNames(rargs.df)

\* C5 as stated: get_returns with a selector naming a non-numeric column
\* raises a ValueError that names that column.
C5_NonNumericSelectionNamed ==
    (pc = "done" /\ SelectsText) =>
        /\ ret.kind = "raise"
        /\ ret.exc = "ValueError"
        /\ "S" \in Range(ret.cols)

\* C5 amended: on a table of two or more rows and one or more columns, with
\* a selector all of whose names are columns of the table, get_returns
\* raises a ValueError naming exactly the selected non-numeric columns when
\* there is one, and otherwise returns a table of exactly the selected
\* columns, so that an unselected non-numeric column causes no failure.
C5_NonNumericSelectionNamedOnValidInput ==
    (/\ pc = "done"
     /\ rargs # Idle
     /\ rargs.columns.kind # "None"
     /\ Len(rargs.df.index) >= 2
     /\ Len(rargs.df.columns) >= 1
     /\ Range(SelectedNames(rargs.columns)) \subseteq ColumnNames(rargs.df)) =>
        LET names == SelectedNames(rargs.columns)
            text == SelectSeq(names, LAMBDA n : n = "S")
        IN  IF text # <<>>
            THEN /\ ret.kind = "raise"
                 /\ ret.exc = "ValueError"
                 /\ ret.cols = text
            ELSE /\ ret.kind = "DataFrame"
                 /\ Len(ret.columns) = Len(names)
                 /\ \A j \in 1..Len(names) : ret.columns[j].name = names[j]

C5_Witness ==
    /\ pc = "done"
    /\ SelectsText
    /\ Len(rargs.df.index) = 2
    /\ SelectedNames(rargs.columns) = <<"A", "S">>
    /\ ret.kind = "raise"
    /\ ret.cols = <<"S">>

\* C6: the URL of construct_url never carries a parameter with the value
\* None: startDate is in the query exactly when a non-empty start_date was
\* given, and format, resampleFreq and endDate are always in it.
C6_NoAbsentParameter ==
    (pc = "done" /\ uargs # Idle) =>
        /\ ("startDate" \in UrlKeys(url)) <=> Truthy(uargs.start_date)
        /\ {"format", "resampleFreq", "endDate"} \subseteq UrlKeys(url)
        /\ \A j \in 1..Len(UrlQuery(url)) :
                /\ UrlQuery(url)[j][2] # PyNone
                /\ UrlQuery(url)[j][1] = "startDate" =>
                        UrlQuery(url)[j][2] = uargs.start_date

C6_Witness ==
    /\ pc = "done"
    /\ uargs # Idle
    /\ uargs.start_date = PyNone
    /\ uargs.end_date = PyNone
    /\ uargs.frequency = PyNone
    /\ url = <<BaseUrl, "A", "/prices?", "format", "=", "csv", "&",
               "resampleFreq", "=", "daily", "&",
               "endDate", "=", "2024-06-30">>

\* C7: constructing the object raises whenever the credential file is
\* unreadable or its stripped content is empty.
C7_EmptyCredentialRejected ==
    (/\ pc = "done"
     /\ file # Idle
     /\ ~file.readable \/ Strip(file.content) = <<>>) =>
        obj.kind = "raise"

\* C8: the table get_returns returns has the index of the (narrowed) input,
\* label for label, and its first row is missing in every column.
C8_IndexPreserved ==
    (pc = "done" /\ rargs # Idle /\ ret.kind = "DataFrame") =>
        /\ ret.index = rargs.df.index
        /\ Len(ret.index) = Len(rargs.df.index)
        /\ \A j \in 1..Len(ret.columns) :
                /\ Len(ret.columns[j].values) = Len(ret.index)
                /\ ret.columns[j].values[1] = NaN
                /\ \A k \in 2..Len(ret.index) : ret.columns[j].values[k] # NaN

C8_Witness ==
    /\ pc = "done"
    /\ rargs # Idle
    /\ ret.kind = "DataFrame"
    /\ ret.index = <<2, 1>>
    /\ Len(ret.columns) = 2
    /\ ret.columns[1].values[1] = NaN
    /\ ret.columns[2].values[2].kind = "ln"

\* C9: the outcome of get_historical_data is the one of fetching the
\* tickers one after another in list order, in whatever order the tasks
\* finished; a column named for a ticker holds that ticker's quotes only;
\* and nothing is returned before every task has finished.
C9_OrderIndependent ==
    /\ (fargs # Idle /\ result # Idle) => AllDone
    /\ (pc = "done" /\ fargs # Idle) =>
        /\ result = Finish(SequentialResults, fargs).value
        /\ (/\ result.kind = "DataFrame"
            /\ Len(CallTickers) >= 2
            /\ fargs.adj_close_only) =>
                \A j \in 1..Len(result.columns) :
                    \A k \in 1..Len(result.index) :
                        result.columns[j].values[k] \in
                            {NaN, Num(Quote(result.columns[j].name, "adjClose",
                                            result.index[k]))}

C9_Witness ==
    /\ pc = "done"
    /\ fargs # Idle
    /\ CallTickers = <<"A", "B">>
    /\ arrival = <<2, 1>>
    /\ fargs.adj_close_only
    /\ result.kind = "DataFrame"
    /\ Len(result.columns) = 2
    /\ result.columns[1].values[1] = Num(Quote("A", "adjClose", 1))
    /\ result.columns[2].values[1] = Num(Quote("B", "adjClose", 1))

\* C10: a call on the multi-ticker path, its tickers distinct, that returns
\* its table closes its log with a warning exactly when the table has no
\* column, and otherwise with an informational record whose count is the
\* number of tickers that succeeded.
C10_ClosingLogCountsTickers ==
    (/\ pc = "done"
     /\ fargs # Idle
     /\ Len(CallTickers) # 1
     /\ IsUnique(CallTickers)
     /\ result.kind = "DataFrame") =>
        LET last == log[Len(log)]
        IN  IF Len(result.columns) = 0
            THEN last.level = "WARNING"
            ELSE last.level = "INFO" /\ last.arg = Cardinality(Succeeded)

=============================================================================
